---- MODULE Spec2Model ----
(***************************************************************************)
(* PQDict (src/pqdict.py): an indexed priority queue.  A binary heap of   *)
(* entries (dkey, pkey) kept in the list `heap`, and the dict             *)
(* `nodefinder` mapping each dkey to the position of its entry in heap.   *)
(* Positions are 0-based as in the source; At/SetAt translate them to the *)
(* 1-based sequences of TLA+.                                             *)
(***************************************************************************)
EXTENDS Integers, Sequences, FiniteSets, TLC

\* ------------------------------------------------------------------ bounds
NumKeys == 4
MaxPkey == 2
MaxArgs == 3
\* the longest list of entries that is heapified or deleted from as a whole
MaxHeap == 6

Keys == 1..NumKeys
Pkeys == 1..MaxPkey
HeapKeys == 1..MaxHeap

VARIABLES
  heap,          \* self.heap: list of entries
  nodefinder,    \* self.nodefinder: dict dkey -> position in heap
  create_entry,  \* self.create_entry: the entry class of the instance
  result,        \* the call handing its outcome to the caller: what it
                 \* returned or raised; idle once the caller has taken it
  model,         \* a plain dict driven by the same calls
  args,          \* the pairs a pending minpq/maxpq call was given
  popped,        \* drain: the pairs the popitem calls returned, in order
  other,         \* the instance self.copy() returned, NoClone before it
  threads        \* two calls run by two threads: their program counters
                 \* and locals, NoThreads where calls run one at a time

vars ==
  <<heap, nodefinder, create_entry, result, model, args, popped, other,
    threads>>

\* ----------------------------------------------------------------- entries
EntryClasses == {"MinPQDEntry", "MaxPQDEntry"}

\* PQDictEntry.__init__ through self.create_entry(dkey, pkey)
Entry(cls, dkey, pkey) == [dkey |-> dkey, pkey |-> pkey, cls |-> cls]

\* a < b: the __lt__ of a's class
lt(a, b) ==
  IF a.cls = "MinPQDEntry" THEN a.pkey < b.pkey ELSE a.pkey > b.pkey

\* ------------------------------------------------------- lists and dicts
At(h, pos) == h[pos + 1]
SetAt(h, pos, e) == [h EXCEPT ![pos + 1] = e]
\* heap.pop(-1): the list without its last element
PopLast(h) == SubSeq(h, 1, Len(h) - 1)
\* x >> 1 on Python integers: floor division by two, also for x = -1
Shr1(x) == x \div 2

EmptyDict == << >>
\* d[k] = v
Put(d, k, v) == [x \in (DOMAIN d) \cup {k} |-> IF x = k THEN v ELSE d[x]]
\* d without k (dict.pop(k) once k is known to be present)
Remove(d, k) == [x \in (DOMAIN d) \ {k} |-> d[x]]

\* ------------------------------------------------------------ _swim, _sink
\* _swim that moves a parent down without recording its new position
RECURSIVE swim_loop_stale(_, _, _, _, _)
swim_loop_stale(h, f, entry, pos, top) ==
  IF pos > top /\ lt(entry, At(h, Shr1(pos - 1)))
  THEN LET parent_pos == Shr1(pos - 1)
       IN swim_loop_stale(SetAt(h, pos, At(h, parent_pos)), f, entry,
                          parent_pos, top)
  ELSE [heap |-> SetAt(h, pos, entry), nodefinder |-> Put(f, entry.dkey, pos)]

RECURSIVE swim_loop(_, _, _, _, _)
swim_loop(h, f, entry, pos, top) ==
  IF pos > top /\ lt(entry, At(h, Shr1(pos - 1)))
  THEN LET parent_pos == Shr1(pos - 1)
           parent_entry == At(h, parent_pos)
       IN swim_loop(SetAt(h, pos, parent_entry),
                    Put(f, parent_entry.dkey, pos), entry, parent_pos, top)
  ELSE [heap |-> SetAt(h, pos, entry), nodefinder |-> Put(f, entry.dkey, pos)]

_swim(h, f, pos, top) == swim_loop(h, f, At(h, pos), pos, top)

\* a choice of child that never looks at the right one
smaller_child_left(h, child_pos) == child_pos

\* the child of pos that _sink and the update branch compare with
smaller_child(h, child_pos) ==
  LET right_pos == child_pos + 1
  IN IF right_pos < Len(h) /\ ~ lt(At(h, child_pos), At(h, right_pos))
     THEN right_pos ELSE child_pos

RECURSIVE sink_loop(_, _, _)
\* the while loop of _sink: returns the heap, the index and the leaf reached
sink_loop(h, f, pos) ==
  LET child_pos == 2 * pos + 1
  IN IF child_pos < Len(h)
     THEN LET c == smaller_child(h, child_pos)
              child_entry == At(h, c)
          IN sink_loop(SetAt(h, pos, child_entry),
                       Put(f, child_entry.dkey, pos), c)
     ELSE [heap |-> h, nodefinder |-> f, pos |-> pos]

_sink(h, f, top) ==
  LET entry == At(h, top)
      d == sink_loop(h, f, top)
  IN _swim(SetAt(d.heap, d.pos, entry), Put(d.nodefinder, entry.dkey, d.pos),
           d.pos, top)

\* for pos in range(n//2): self._sink(pos), from pos upwards
RECURSIVE heapify_upwards(_, _, _)
heapify_upwards(h, f, pos) ==
  IF pos >= Len(h) \div 2 THEN [heap |-> h, nodefinder |-> f]
  ELSE LET s == _sink(h, f, pos)
       IN heapify_upwards(s.heap, s.nodefinder, pos + 1)

\* _heapify without reversed(): sinks the root first
heapify_forward(h, f) == heapify_upwards(h, f, 0)

RECURSIVE heapify_loop(_, _, _)
\* for pos in reversed(range(n//2)): self._sink(pos), from pos downwards
heapify_loop(h, f, pos) ==
  IF pos < 0 THEN [heap |-> h, nodefinder |-> f]
  ELSE LET s == _sink(h, f, pos)
       IN heapify_loop(s.heap, s.nodefinder, pos - 1)

_heapify(h, f) == heapify_loop(h, f, (Len(h) \div 2) - 1)

\* ---------------------------------------------------------------- __init__
RECURSIVE init_loop(_, _, _, _, _)
\* for dkey, pkey in seq: append the entry, nodefinder[dkey] = pos, pos += 1
init_loop(cls, seq, i, h, f) ==
  IF i > Len(seq) THEN [heap |-> h, nodefinder |-> f]
  ELSE init_loop(cls, seq, i + 1,
                 Append(h, Entry(cls, seq[i][1], seq[i][2])),
                 Put(f, seq[i][1], Len(h)))

__init__(cls, seq) ==
  LET a == init_loop(cls, seq, 1, << >>, EmptyDict)
  IN _heapify(a.heap, a.nodefinder)

\* dict(seq): the plain dict of the same pairs
RECURSIVE dict_of(_, _, _)
dict_of(seq, i, d) ==
  IF i > Len(seq) THEN d ELSE dict_of(seq, i + 1, Put(d, seq[i][1], seq[i][2]))

\* ------------------------------------------------- __setitem__, __delitem__
\* lines 246-256 of __setitem__, repeated as lines 278-288 of __delitem__:
\* swim if the entry at pos outranks its parent, else sink if its smaller
\* child outranks it
\* the repair that only ever sinks
repair_sink_only(h, f, pos) ==
  LET child_pos == 2 * pos + 1
  IN IF child_pos < Len(h)
        /\ lt(At(h, smaller_child(h, child_pos)), At(h, pos))
     THEN _sink(h, f, pos)
     ELSE [heap |-> h, nodefinder |-> f]

repair(h, f, pos) ==
  LET parent_pos == Shr1(pos - 1)
      child_pos == 2 * pos + 1
  IN IF parent_pos > 0 /\ lt(At(h, pos), At(h, parent_pos))
     THEN _swim(h, f, pos, 0)
     ELSE IF child_pos < Len(h)
             /\ lt(At(h, smaller_child(h, child_pos)), At(h, pos))
          THEN _sink(h, f, pos)
          ELSE [heap |-> h, nodefinder |-> f]

\* __setitem__ whose update branch repairs without storing the new pkey
setitem_on_stale(h, f, cls, dkey, pkey) ==
  IF dkey \notin DOMAIN f
  THEN LET n == Len(h)
       IN _swim(Append(h, Entry(cls, dkey, pkey)), Put(f, dkey, n), n, 0)
  ELSE repair(h, f, f[dkey])

\* __setitem__ whose update branch stores the new pkey at the root
setitem_on_root(h, f, cls, dkey, pkey) ==
  IF dkey \notin DOMAIN f
  THEN LET n == Len(h)
       IN _swim(Append(h, Entry(cls, dkey, pkey)), Put(f, dkey, n), n, 0)
  ELSE repair(SetAt(h, 0, [At(h, 0) EXCEPT !.pkey = pkey]), f, f[dkey])

\* self[dkey] = pkey on heap h, index f, entry class cls
setitem_on(h, f, cls, dkey, pkey) ==
  IF dkey \notin DOMAIN f
  THEN LET n == Len(h)
       IN _swim(Append(h, Entry(cls, dkey, pkey)), Put(f, dkey, n), n, 0)
  ELSE LET pos == f[dkey]
       IN repair(SetAt(h, pos, [At(h, pos) EXCEPT !.pkey = pkey]), f, pos)

\* __delitem__ that reads finder[dkey] where the source pops it
delitem_on_keep(h, f, dkey) ==
  LET pos == f[dkey]
      last == At(h, Len(h) - 1)
      h1 == PopLast(h)
  IN IF pos # Len(h) - 1
     THEN repair(SetAt(h1, pos, last), Put(f, last.dkey, pos), pos)
     ELSE [heap |-> h1, nodefinder |-> f]

\* del self[dkey] for a dkey of the index; `entry is not last` compares two
\* slots of one list, which hold one object only when they are one slot
delitem_on(h, f, dkey) ==
  LET pos == f[dkey]
      f1 == Remove(f, dkey)
      last == At(h, Len(h) - 1)
      h1 == PopLast(h)
  IN IF pos # Len(h) - 1
     THEN repair(SetAt(h1, pos, last), Put(f1, last.dkey, pos), pos)
     ELSE [heap |-> h1, nodefinder |-> f1]

\* pop that returns the pkey of the entry it moved into the gap
pop_on_moved(h, f, dkey) ==
  LET s == delitem_on(h, f, dkey)
  IN [heap |-> s.heap, nodefinder |-> s.nodefinder,
      pkey |-> At(h, Len(h) - 1).pkey]

\* self.pop(dkey) for a dkey of the index: lines 334-352, the body of
\* __delitem__ again, and the pkey of the entry removed
pop_on(h, f, dkey) ==
  LET pos == f[dkey]
      f1 == Remove(f, dkey)
      delentry == At(h, pos)
      last == At(h, Len(h) - 1)
      h1 == PopLast(h)
      s == IF pos # Len(h) - 1
           THEN repair(SetAt(h1, pos, last), Put(f1, last.dkey, pos), pos)
           ELSE [heap |-> h1, nodefinder |-> f1]
  IN [heap |-> s.heap, nodefinder |-> s.nodefinder, pkey |-> delentry.pkey]

\* popitem that returns the entry it took off the end of the list
popitem_on_last(h, f) ==
  LET last == At(h, Len(h) - 1)
      h1 == PopLast(h)
      s == IF h1 # << >>
           THEN _sink(SetAt(h1, 0, last), Put(f, last.dkey, 0), 0)
           ELSE [heap |-> h1, nodefinder |-> f]
  IN [heap |-> s.heap, nodefinder |-> Remove(s.nodefinder, last.dkey),
      entry |-> last, found |-> TRUE]

\* popitem on a non-empty heap: the new heap and index, the entry returned,
\* and whether nodefinder.pop(entry.dkey) found the key
popitem_on(h, f) ==
  LET last == At(h, Len(h) - 1)
      h1 == PopLast(h)
      entry == IF h1 # << >> THEN At(h1, 0) ELSE last
      s == IF h1 # << >>
           THEN _sink(SetAt(h1, 0, last), Put(f, last.dkey, 0), 0)
           ELSE [heap |-> h1, nodefinder |-> f]
  IN IF entry.dkey \in DOMAIN s.nodefinder
     THEN [heap |-> s.heap, nodefinder |-> Remove(s.nodefinder, entry.dkey),
           entry |-> entry, found |-> TRUE]
     ELSE [heap |-> s.heap, nodefinder |-> s.nodefinder,
           entry |-> entry, found |-> FALSE]

\* ------------------------------------------------------------ the queries
\* __len__, __contains__, __getitem__ and peek as functions of the state
len_of(f) == Cardinality(DOMAIN f)
contains(f, dkey) == dkey \in DOMAIN f
getitem_of(h, f, dkey) == At(h, f[dkey]).pkey
peek_of(h) == <<At(h, 0).dkey, At(h, 0).pkey>>

\* --------------------------------------------------------------- results
Returned(op, val) == [op |-> op, status |-> "ok", val |-> val]
Raised(op, exc) == [op |-> op, status |-> exc, val |-> << >>]
None == << >>
\* no copy made, no threads started
NoClone == << >>
NoThreads == << >>
\* no call in progress
idle == Returned("idle", None)
constructed == result.op # "cls"
\* the instance is constructed and the caller is free to make a call
ready == result = idle

\* ------------------------------------------------------------ construction
\* the argument sequences of the constructor: pairs (dkey, pkey)
AnyArgs == UNION {[1..n -> Keys \X Pkeys] : n \in 0..MaxArgs}
UniqueArgs ==
  {a \in AnyArgs : \A i, j \in 1..Len(a) : a[i][1] = a[j][1] => i = j}

\* pq = cls(): an empty instance whose create_entry is the class attribute,
\* with the call of minpq or maxpq on args pending
fresh(argset) ==
  /\ heap = << >>
  /\ nodefinder = EmptyDict
  /\ create_entry = "MinPQDEntry"
  /\ result = Returned("cls", None)
  /\ model = EmptyDict
  /\ args \in argset
  /\ popped = << >>
  /\ other = NoClone
  /\ threads = NoThreads

\* pq.create_entry = cls; pq.__init__(*args)
construct(cls) ==
  /\ ~ constructed
  /\ LET s == __init__(cls, args)
     IN /\ heap' = s.heap
        /\ nodefinder' = s.nodefinder
  /\ create_entry' = cls
  /\ result' = Returned("__init__", None)
  /\ model' = dict_of(args, 1, EmptyDict)
  /\ args' = << >>
  /\ UNCHANGED <<popped, other, threads>>

minpq == construct("MinPQDEntry")

maxpq == construct("MaxPQDEntry")

\* ------------------------------------------------------- the public calls
\* a call that raised, or a query: the instance is as it was
unchanged_but(r) ==
  /\ result' = r
  /\ UNCHANGED <<heap, nodefinder, create_entry, model, args, popped, other,
               threads>>

\* a call that returned after changing the heap to s and the dict to m
changed_to(s, m, r) ==
  /\ heap' = s.heap
  /\ nodefinder' = s.nodefinder
  /\ model' = m
  /\ result' = r
  /\ UNCHANGED <<create_entry, args, popped, other, threads>>

__setitem__(dkey, pkey) ==
  /\ ready
  /\ changed_to(setitem_on(heap, nodefinder, create_entry, dkey, pkey),
                Put(model, dkey, pkey), Returned("__setitem__", None))

\* additem without its membership test
additem_unguarded(dkey, pkey) ==
  /\ ready
  /\ changed_to(setitem_on(heap, nodefinder, create_entry, dkey, pkey),
                Put(model, dkey, pkey), Returned("additem", None))

additem(dkey, pkey) ==
  /\ ready
  /\ IF dkey \in DOMAIN nodefinder
     THEN unchanged_but(Raised("additem", "KeyError"))
     ELSE changed_to(setitem_on(heap, nodefinder, create_entry, dkey, pkey),
                     Put(model, dkey, pkey), Returned("additem", None))

\* updateitem without its membership test
updateitem_unguarded(dkey, new_pkey) ==
  /\ ready
  /\ changed_to(setitem_on(heap, nodefinder, create_entry, dkey, new_pkey),
                Put(model, dkey, new_pkey), Returned("updateitem", None))

updateitem(dkey, new_pkey) ==
  /\ ready
  /\ IF dkey \notin DOMAIN nodefinder
     THEN unchanged_but(Raised("updateitem", "KeyError"))
     ELSE changed_to(setitem_on(heap, nodefinder, create_entry, dkey, new_pkey),
                     Put(model, dkey, new_pkey), Returned("updateitem", None))

__delitem__(dkey) ==
  /\ ready
  /\ IF dkey \notin DOMAIN nodefinder
     THEN unchanged_but(Raised("__delitem__", "KeyError"))
     ELSE changed_to(delitem_on(heap, nodefinder, dkey),
                     Remove(model, dkey), Returned("__delitem__", None))

\* the default argument of pop: not given, or a value that is no priority
NoDefault == << >>
Defaults == {NoDefault, <<0>>}

pop(dkey, default) ==
  /\ ready
  /\ IF dkey \notin DOMAIN nodefinder
     THEN IF default = NoDefault
          THEN unchanged_but(Raised("pop", "KeyError"))
          ELSE unchanged_but(Returned("pop", default))
     ELSE LET s == pop_on(heap, nodefinder, dkey)
          IN changed_to(s, Remove(model, dkey), Returned("pop", <<s.pkey>>))

\* popitem that returns None when the list is empty
popitem_quiet ==
  /\ ready
  /\ IF heap = << >>
     THEN unchanged_but(Returned("popitem", None))
     ELSE LET s == popitem_on(heap, nodefinder)
          IN IF s.found
             THEN changed_to(s, Remove(model, s.entry.dkey),
                    Returned("popitem", <<s.entry.dkey, s.entry.pkey>>))
             ELSE changed_to(s, model, Raised("popitem", "KeyError"))

popitem ==
  /\ ready
  /\ IF heap = << >>
     THEN unchanged_but(Raised("popitem", "KeyError"))
     ELSE LET s == popitem_on(heap, nodefinder)
          IN IF s.found
             THEN changed_to(s, Remove(model, s.entry.dkey),
                    Returned("popitem", <<s.entry.dkey, s.entry.pkey>>))
             ELSE changed_to(s, model, Raised("popitem", "KeyError"))

__getitem__(dkey) ==
  /\ ready
  /\ IF dkey \notin DOMAIN nodefinder
     THEN unchanged_but(Raised("__getitem__", "KeyError"))
     ELSE unchanged_but(
            Returned("__getitem__", <<getitem_of(heap, nodefinder, dkey)>>))

\* peek that takes the pair it returns off the queue
peek_taking ==
  /\ ready
  /\ IF heap = << >>
     THEN unchanged_but(Raised("peek", "KeyError"))
     ELSE LET s == popitem_on(heap, nodefinder)
          IN changed_to(s, Remove(model, s.entry.dkey),
                        Returned("peek", peek_of(heap)))

peek ==
  /\ ready
  /\ IF heap = << >>
     THEN unchanged_but(Raised("peek", "KeyError"))
     ELSE unchanged_but(Returned("peek", peek_of(heap)))

__len__ ==
  /\ ready
  /\ unchanged_but(Returned("__len__", <<len_of(nodefinder)>>))

__contains__(dkey) ==
  /\ ready
  /\ unchanged_but(Returned("__contains__", <<contains(nodefinder, dkey)>>))

\* the caller takes what the call returned or raised
taken ==
  /\ constructed
  /\ result # idle
  /\ result' = idle
  /\ UNCHANGED <<heap, nodefinder, create_entry, model, args, popped, other,
               threads>>

\* ---------------------------------------------------------- specifications
Init == fresh(UniqueArgs)

Next ==
  \/ minpq
  \/ maxpq
  \/ \E dkey \in Keys, pkey \in Pkeys : __setitem__(dkey, pkey)
  \/ \E dkey \in Keys, pkey \in Pkeys : additem(dkey, pkey)
  \/ \E dkey \in Keys, pkey \in Pkeys : updateitem(dkey, pkey)
  \/ \E dkey \in Keys : __delitem__(dkey)
  \/ popitem
  \/ \E dkey \in Keys : __getitem__(dkey)
  \/ peek
  \/ taken

Spec == Init /\ [][Next]_vars

\* the same calls, and the two queries that never raise
NextQuery ==
  \/ minpq
  \/ maxpq
  \/ \E dkey \in Keys, pkey \in Pkeys : __setitem__(dkey, pkey)
  \/ \E dkey \in Keys, pkey \in Pkeys : additem(dkey, pkey)
  \/ \E dkey \in Keys, pkey \in Pkeys : updateitem(dkey, pkey)
  \/ \E dkey \in Keys : __delitem__(dkey)
  \/ popitem
  \/ \E dkey \in Keys : __getitem__(dkey)
  \/ peek
  \/ __len__
  \/ \E dkey \in Keys : __contains__(dkey)
  \/ taken

SpecQuery == Init /\ [][NextQuery]_vars

\* an instance built from arguments that may repeat a dkey, then only queried
InitDup == fresh(AnyArgs)

NextDup ==
  \/ minpq
  \/ maxpq
  \/ \E dkey \in Keys : __getitem__(dkey)
  \/ peek
  \/ taken

SpecDup == InitDup /\ [][NextDup]_vars

\* inserts of new keys, then popitem calls only: model keeps the pairs
\* inserted, popped the pairs returned
drain_setitem(dkey, pkey) ==
  /\ popped = << >>
  /\ dkey \notin DOMAIN nodefinder
  /\ __setitem__(dkey, pkey)

drain_additem(dkey, pkey) ==
  /\ popped = << >>
  /\ dkey \notin DOMAIN nodefinder
  /\ additem(dkey, pkey)

drain_popitem ==
  /\ ready
  /\ heap # << >>
  /\ LET s == popitem_on(heap, nodefinder)
     IN /\ s.found
        /\ heap' = s.heap
        /\ nodefinder' = s.nodefinder
        /\ result' = Returned("popitem", <<s.entry.dkey, s.entry.pkey>>)
        /\ popped' = Append(popped, <<s.entry.dkey, s.entry.pkey>>)
  /\ UNCHANGED <<create_entry, model, args, other, threads>>

NextDrain ==
  \/ minpq
  \/ maxpq
  \/ \E dkey \in Keys, pkey \in Pkeys : drain_setitem(dkey, pkey)
  \/ \E dkey \in Keys, pkey \in Pkeys : drain_additem(dkey, pkey)
  \/ drain_popitem
  \/ taken

SpecDrain == Init /\ [][NextDrain]_vars

\* the lists of up to MaxHeap entries of class cls, keyed 1, 2, ... in list
\* order (a dkey is only hashed and compared for equality), of any pkeys
Arrays(cls) ==
  UNION {{[i \in 1..n |-> Entry(cls, i, p[i])] : p \in [1..n -> Pkeys]} :
           n \in 0..MaxHeap}

\* the lists that additem of the entries in list order builds: each entry
\* appended stays where it is when it does not outrank its parent
heap_ordered(h) ==
  \A pos \in 1..(Len(h) - 1) : ~ lt(At(h, pos), At(h, Shr1(pos - 1)))

\* an instance that holds the list h
holding(cls, h) ==
  /\ heap = h
  /\ nodefinder = [k \in 1..Len(h) |-> k - 1]
  /\ create_entry = cls
  /\ result = idle
  /\ model = [k \in 1..Len(h) |-> h[k].pkey]
  /\ args = << >>
  /\ popped = << >>
  /\ other = NoClone
  /\ threads = NoThreads

\* any heap-ordered instance of up to MaxHeap entries, then keys deleted
InitDelete ==
  \E cls \in EntryClasses :
    \E h \in {a \in Arrays(cls) : heap_ordered(a)} : holding(cls, h)

NextDelete ==
  \/ \E dkey \in HeapKeys : __delitem__(dkey)
  \/ \E dkey \in HeapKeys, default \in Defaults : pop(dkey, default)
  \/ taken

SpecDelete == InitDelete /\ [][NextDelete]_vars

\* construction from up to MaxHeap pairs of distinct keys, of any pkeys
HeapArgs ==
  UNION {{[i \in 1..n |-> <<i, p[i]>>] : p \in [1..n -> Pkeys]} :
           n \in 0..MaxHeap}

InitHeapify == fresh(HeapArgs)

NextHeapify ==
  \/ minpq
  \/ maxpq
  \/ taken

SpecHeapify == InitHeapify /\ [][NextHeapify]_vars

\* ------------------------------------------------------------------ copies
\* an instance as one value: what self and other are
self_inst ==
  [heap |-> heap, nodefinder |-> nodefinder, create_entry |-> create_entry,
   result |-> result, model |-> model]

\* a copy that leaves the index of the new instance empty
copy_of_bare(h, f, m) ==
  [heap |-> h, nodefinder |-> EmptyDict, create_entry |-> "MinPQDEntry",
   result |-> idle, model |-> m]

\* other = self.__class__(): an empty PQDict, whose create_entry is the class
\* attribute of line 113; then a list of copies of the entries, each of the
\* class its original has, and a copy of the index
copy_of(h, f, m) ==
  [heap |-> h, nodefinder |-> f, create_entry |-> "MinPQDEntry",
   result |-> idle, model |-> m]

\* other = self.copy(), on an instance just constructed
__copy__ ==
  /\ result = Returned("__init__", None)
  /\ other = NoClone
  /\ other' = copy_of(heap, nodefinder, model)
  /\ result' = Returned("__copy__", None)
  /\ UNCHANGED <<heap, nodefinder, create_entry, model, args, popped, threads>>

\* the calls made on an instance and its copy
Call(op, dkey, pkey) == [op |-> op, dkey |-> dkey, pkey |-> pkey]
Mutations ==
  {Call(op, k, p) : op \in {"__setitem__", "additem", "updateitem"},
                    k \in Keys, p \in Pkeys}
    \cup {Call("__delitem__", k, 0) : k \in Keys}
    \cup {Call("popitem", 0, 0)}
Calls == Mutations \cup {Call("peek", 0, 0)}

\* the instance q after the call c: the public methods, on an instance
\* given as a value
call_on(q, c) ==
  LET h == q.heap
      f == q.nodefinder
      raised == [q EXCEPT !.result = Raised(c.op, "KeyError")]
      set == LET s == setitem_on(h, f, q.create_entry, c.dkey, c.pkey)
             IN [q EXCEPT !.heap = s.heap, !.nodefinder = s.nodefinder,
                          !.model = Put(q.model, c.dkey, c.pkey),
                          !.result = Returned(c.op, None)]
  IN CASE c.op = "__setitem__" -> set
       [] c.op = "additem" -> IF c.dkey \in DOMAIN f THEN raised ELSE set
       [] c.op = "updateitem" -> IF c.dkey \notin DOMAIN f THEN raised ELSE set
       [] c.op = "__delitem__" ->
            IF c.dkey \notin DOMAIN f THEN raised
            ELSE LET s == delitem_on(h, f, c.dkey)
                 IN [q EXCEPT !.heap = s.heap, !.nodefinder = s.nodefinder,
                              !.model = Remove(q.model, c.dkey),
                              !.result = Returned(c.op, None)]
       [] c.op = "popitem" ->
            IF h = << >> THEN raised
            ELSE LET s == popitem_on(h, f)
                 IN IF s.found
                    THEN [q EXCEPT
                            !.heap = s.heap, !.nodefinder = s.nodefinder,
                            !.model = Remove(q.model, s.entry.dkey),
                            !.result = Returned(c.op, <<s.entry.dkey,
                                                        s.entry.pkey>>)]
                    ELSE [q EXCEPT
                            !.heap = s.heap, !.nodefinder = s.nodefinder,
                            !.result = Raised(c.op, "KeyError")]
       [] c.op = "peek" ->
            IF h = << >> THEN raised
            ELSE [q EXCEPT !.result = Returned(c.op, peek_of(h))]

\* self becomes the instance q
becomes(q) ==
  /\ heap' = q.heap
  /\ nodefinder' = q.nodefinder
  /\ result' = q.result
  /\ model' = q.model
  /\ UNCHANGED <<create_entry, args, popped, threads>>

\* one call on the original, once the copy is made
self_call(c) ==
  /\ result = Returned("__copy__", None)
  /\ other.result = idle
  /\ becomes(call_on(self_inst, c))
  /\ UNCHANGED other

\* one call on the copy
other_call(c) ==
  /\ result = Returned("__copy__", None)
  /\ other.result = idle
  /\ other' = call_on(other, c)
  /\ UNCHANGED <<heap, nodefinder, create_entry, result, model, args, popped,
                 threads>>

NextClone ==
  \/ minpq
  \/ maxpq
  \/ __copy__
  \/ \E c \in Mutations : self_call(c)
  \/ \E c \in Mutations : other_call(c)

SpecClone == Init /\ [][NextClone]_vars

\* the same call on the original and on the copy, for as long as the two
\* hold the same pairs
both_call(c) ==
  /\ ready
  /\ other # NoClone
  /\ other.result = idle
  /\ other.model = model
  /\ becomes(call_on(self_inst, c))
  /\ other' = call_on(other, c)

\* the caller takes what the two calls returned or raised
both_taken ==
  /\ other # NoClone
  /\ result # idle
  /\ result' = idle
  /\ other' = [other EXCEPT !.result = idle]
  /\ UNCHANGED <<heap, nodefinder, create_entry, model, args, popped, threads>>

NextLockstep ==
  \/ minpq
  \/ maxpq
  \/ __copy__
  \/ \E c \in Calls : both_call(c)
  \/ both_taken

SpecLockstep == Init /\ [][NextLockstep]_vars

\* the action of the call c
action_of(c) ==
  CASE c.op = "__setitem__" -> __setitem__(c.dkey, c.pkey)
    [] c.op = "additem" -> additem(c.dkey, c.pkey)
    [] c.op = "updateitem" -> updateitem(c.dkey, c.pkey)
    [] c.op = "__delitem__" -> __delitem__(c.dkey)
    [] c.op = "popitem" -> popitem
    [] c.op = "peek" -> peek

\* call_on is the calls: each step of a call leaves what call_on gives, and
\* what call_on gives is a step of that call (a property of Spec)
CallOnIsTheCalls ==
  [][\A c \in Calls :
       /\ action_of(c) => self_inst' = call_on(self_inst, c)
       /\ (ready /\ becomes(call_on(self_inst, c)) /\ UNCHANGED other)
            => action_of(c)]_vars

\* ----------------------------------------------------------------- threads
\* Two threads share one instance: thread "a" runs self[dkey] = pkey for a
\* dkey that is not in the queue, thread "b" runs self.popitem().  Each
\* step is one statement of __setitem__, popitem, _sink or _swim, with one
\* read or write of self.heap or self.nodefinder.  With threads.locked the
\* caller holds a lock around each call, so a call runs from its first to
\* its last step without a step of the other in between.
Threads == {"a", "b"}
NoEntry == Entry("MinPQDEntry", 0, 0)

\* the locals of a call that has not started
locals(call, dkey, pkey) ==
  [pc |-> "start", call |-> call, dkey |-> dkey, pkey |-> pkey, n |-> 0,
   pos |-> 0, top |-> 0, child_pos |-> 0, entry |-> NoEntry,
   parent_entry |-> NoEntry, child_entry |-> NoEntry, last |-> NoEntry,
   ret |-> NoEntry]

running(t) == threads[t].pc \notin {"start", "done", "raised"}
finished(t) == threads[t].pc \in {"done", "raised"}

\* thread t is at the statement pc and may take its next step
at(t, pc) ==
  /\ threads # NoThreads
  /\ threads[t].pc = pc
  /\ threads.locked => \A u \in Threads \ {t} : ~ running(u)

\* an exception leaves the call
raise(t) ==
  /\ threads' = [threads EXCEPT ![t].pc = "raised"]
  /\ UNCHANGED <<heap, nodefinder, model>>

unchanged_by_step == UNCHANGED <<create_entry, result, args, popped, other>>

\* 235-237: pos = finder[dkey] raises KeyError, the insert branch is taken
set_find(t) ==
  /\ at(t, "start")
  /\ threads[t].call = "__setitem__"
  /\ threads[t].dkey \notin DOMAIN nodefinder
  /\ threads' = [threads EXCEPT ![t].pc = "set_len"]
  /\ UNCHANGED <<heap, nodefinder, model>>
  /\ unchanged_by_step

\* 239: n = len(self.heap)
set_len(t) ==
  /\ at(t, "set_len")
  /\ threads' = [threads EXCEPT ![t].pc = "set_append", ![t].n = Len(heap)]
  /\ UNCHANGED <<heap, nodefinder, model>>
  /\ unchanged_by_step

\* 240: self.heap.append(self.create_entry(dkey, pkey))
set_append(t) ==
  /\ at(t, "set_append")
  /\ heap' = Append(heap, Entry(create_entry, threads[t].dkey, threads[t].pkey))
  /\ threads' = [threads EXCEPT ![t].pc = "set_index"]
  /\ UNCHANGED <<nodefinder, model>>
  /\ unchanged_by_step

\* 241-242: self.nodefinder[dkey] = n; self._swim(n)
set_index(t) ==
  /\ at(t, "set_index")
  /\ nodefinder' = Put(nodefinder, threads[t].dkey, threads[t].n)
  /\ threads' = [threads EXCEPT ![t].pc = "swim_entry",
                                ![t].pos = threads[t].n, ![t].top = 0]
  /\ UNCHANGED <<heap, model>>
  /\ unchanged_by_step

\* 444: entry = heap[pos]
swim_entry(t) ==
  /\ at(t, "swim_entry")
  /\ IF threads[t].pos < Len(heap)
     THEN /\ threads' = [threads EXCEPT ![t].pc = "swim_test",
                                        ![t].entry = At(heap, threads[t].pos)]
          /\ UNCHANGED <<heap, nodefinder, model>>
     ELSE raise(t)
  /\ unchanged_by_step

\* 447-450, 455: while pos > top: parent_entry = heap[parent_pos];
\* if entry < parent_entry ... else break
swim_test(t) ==
  /\ at(t, "swim_test")
  /\ LET pos == threads[t].pos
         parent_pos == Shr1(pos - 1)
     IN IF pos > threads[t].top
        THEN IF parent_pos < Len(heap)
             THEN /\ threads' =
                       [threads EXCEPT
                          ![t].parent_entry = At(heap, parent_pos),
                          ![t].pc = IF lt(threads[t].entry, At(heap, parent_pos))
                                    THEN "swim_move" ELSE "swim_put"]
                  /\ UNCHANGED <<heap, nodefinder, model>>
             ELSE raise(t)
        ELSE /\ threads' = [threads EXCEPT ![t].pc = "swim_put"]
             /\ UNCHANGED <<heap, nodefinder, model>>
  /\ unchanged_by_step

\* 451: heap[pos] = parent_entry
swim_move(t) ==
  /\ at(t, "swim_move")
  /\ IF threads[t].pos < Len(heap)
     THEN /\ heap' = SetAt(heap, threads[t].pos, threads[t].parent_entry)
          /\ threads' = [threads EXCEPT ![t].pc = "swim_index"]
          /\ UNCHANGED <<nodefinder, model>>
     ELSE raise(t)
  /\ unchanged_by_step

\* swim that does not record the new position of the parent it moved down
swim_index_skipped(t) ==
  /\ at(t, "swim_index")
  /\ threads' = [threads EXCEPT ![t].pc = "swim_test",
                                ![t].pos = Shr1(threads[t].pos - 1)]
  /\ UNCHANGED <<heap, nodefinder, model>>
  /\ unchanged_by_step

\* 452-454: finder[parent_entry.dkey] = pos; pos = parent_pos; continue
swim_index(t) ==
  /\ at(t, "swim_index")
  /\ nodefinder' = Put(nodefinder, threads[t].parent_entry.dkey, threads[t].pos)
  /\ threads' = [threads EXCEPT ![t].pc = "swim_test",
                                ![t].pos = Shr1(threads[t].pos - 1)]
  /\ UNCHANGED <<heap, model>>
  /\ unchanged_by_step

\* 458: heap[pos] = entry
swim_put(t) ==
  /\ at(t, "swim_put")
  /\ IF threads[t].pos < Len(heap)
     THEN /\ heap' = SetAt(heap, threads[t].pos, threads[t].entry)
          /\ threads' = [threads EXCEPT ![t].pc = "swim_fin"]
          /\ UNCHANGED <<nodefinder, model>>
     ELSE raise(t)
  /\ unchanged_by_step

\* 459: finder[entry.dkey] = pos, and _swim returns: to the end of
\* __setitem__ (242), or through _sink (437) to line 371 of popitem
swim_fin(t) ==
  /\ at(t, "swim_fin")
  /\ nodefinder' = Put(nodefinder, threads[t].entry.dkey, threads[t].pos)
  /\ IF threads[t].call = "__setitem__"
     THEN /\ threads' = [threads EXCEPT ![t].pc = "done"]
          /\ model' = Put(model, threads[t].dkey, threads[t].pkey)
     ELSE /\ threads' = [threads EXCEPT ![t].pc = "pop_index"]
          /\ UNCHANGED model
  /\ UNCHANGED heap
  /\ unchanged_by_step

\* 359-362: last = self.heap.pop(-1), KeyError for the IndexError
pop_last(t) ==
  /\ at(t, "start")
  /\ threads[t].call = "popitem"
  /\ IF heap # << >>
     THEN /\ heap' = PopLast(heap)
          /\ threads' = [threads EXCEPT ![t].pc = "pop_root",
                                        ![t].last = At(heap, Len(heap) - 1)]
          /\ UNCHANGED <<nodefinder, model>>
     ELSE raise(t)
  /\ unchanged_by_step

\* 364-365, 370: if self.heap: entry = self.heap[0] else: entry = last
pop_root(t) ==
  /\ at(t, "pop_root")
  /\ threads' = IF heap # << >>
                THEN [threads EXCEPT ![t].pc = "pop_set",
                                     ![t].ret = At(heap, 0)]
                ELSE [threads EXCEPT ![t].pc = "pop_index",
                                     ![t].ret = threads[t].last]
  /\ UNCHANGED <<heap, nodefinder, model>>
  /\ unchanged_by_step

\* 366: self.heap[0] = last
pop_set(t) ==
  /\ at(t, "pop_set")
  /\ IF heap # << >>
     THEN /\ heap' = SetAt(heap, 0, threads[t].last)
          /\ threads' = [threads EXCEPT ![t].pc = "pop_find"]
          /\ UNCHANGED <<nodefinder, model>>
     ELSE raise(t)
  /\ unchanged_by_step

\* 367-368: self.nodefinder[last.dkey] = 0; self._sink(0)
pop_find(t) ==
  /\ at(t, "pop_find")
  /\ nodefinder' = Put(nodefinder, threads[t].last.dkey, 0)
  /\ threads' = [threads EXCEPT ![t].pc = "sink_entry", ![t].top = 0]
  /\ UNCHANGED <<heap, model>>
  /\ unchanged_by_step

\* 414-418: pos = top; entry = heap[pos]; child_pos = 2*pos + 1
sink_entry(t) ==
  /\ at(t, "sink_entry")
  /\ IF threads[t].top < Len(heap)
     THEN /\ threads' = [threads EXCEPT
                           ![t].pc = "sink_test",
                           ![t].pos = threads[t].top,
                           ![t].entry = At(heap, threads[t].top),
                           ![t].child_pos = 2 * threads[t].top + 1]
          /\ UNCHANGED <<heap, nodefinder, model>>
     ELSE raise(t)
  /\ unchanged_by_step

\* 419-423: while child_pos < len(heap): the smaller child is chosen
sink_test(t) ==
  /\ at(t, "sink_test")
  /\ threads' =
       IF threads[t].child_pos < Len(heap)
       THEN [threads EXCEPT
               ![t].pc = "sink_move",
               ![t].child_pos = smaller_child(heap, threads[t].child_pos)]
       ELSE [threads EXCEPT ![t].pc = "sink_put"]
  /\ UNCHANGED <<heap, nodefinder, model>>
  /\ unchanged_by_step

\* 426-427: child_entry = heap[child_pos]; heap[pos] = child_entry
sink_move(t) ==
  /\ at(t, "sink_move")
  /\ IF threads[t].child_pos < Len(heap)
     THEN /\ heap' = SetAt(heap, threads[t].pos, At(heap, threads[t].child_pos))
          /\ threads' =
               [threads EXCEPT ![t].pc = "sink_index",
                               ![t].child_entry = At(heap, threads[t].child_pos)]
          /\ UNCHANGED <<nodefinder, model>>
     ELSE raise(t)
  /\ unchanged_by_step

\* 428-431: finder[child_entry.dkey] = pos; pos = child_pos;
\* child_pos = 2*pos + 1
sink_index(t) ==
  /\ at(t, "sink_index")
  /\ nodefinder' = Put(nodefinder, threads[t].child_entry.dkey, threads[t].pos)
  /\ threads' = [threads EXCEPT ![t].pc = "sink_test",
                                ![t].pos = threads[t].child_pos,
                                ![t].child_pos = 2 * threads[t].child_pos + 1]
  /\ UNCHANGED <<heap, model>>
  /\ unchanged_by_step

\* 435: heap[pos] = entry
sink_put(t) ==
  /\ at(t, "sink_put")
  /\ IF threads[t].pos < Len(heap)
     THEN /\ heap' = SetAt(heap, threads[t].pos, threads[t].entry)
          /\ threads' = [threads EXCEPT ![t].pc = "sink_fin"]
          /\ UNCHANGED <<nodefinder, model>>
     ELSE raise(t)
  /\ unchanged_by_step

\* 436-437: finder[entry.dkey] = pos; self._swim(pos, top)
sink_fin(t) ==
  /\ at(t, "sink_fin")
  /\ nodefinder' = Put(nodefinder, threads[t].entry.dkey, threads[t].pos)
  /\ threads' = [threads EXCEPT ![t].pc = "swim_entry"]
  /\ UNCHANGED <<heap, model>>
  /\ unchanged_by_step

\* 371-372: self.nodefinder.pop(entry.dkey); return entry.dkey, entry.pkey
pop_index(t) ==
  /\ at(t, "pop_index")
  /\ IF threads[t].ret.dkey \in DOMAIN nodefinder
     THEN /\ nodefinder' = Remove(nodefinder, threads[t].ret.dkey)
          /\ model' = [k \in DOMAIN model \ {threads[t].ret.dkey} |-> model[k]]
          /\ threads' = [threads EXCEPT ![t].pc = "done"]
          /\ UNCHANGED heap
     ELSE raise(t)
  /\ unchanged_by_step

\* a heap-ordered instance of up to MaxArgs entries; thread "a" is to set a
\* new key to any priority, thread "b" to call popitem; locked or not
InitThreads ==
  \E cls \in EntryClasses, pkey \in Pkeys, locked \in BOOLEAN :
    \E h \in {a \in Arrays(cls) : Len(a) <= MaxArgs /\ heap_ordered(a)} :
      /\ heap = h
      /\ nodefinder = [k \in 1..Len(h) |-> k - 1]
      /\ create_entry = cls
      /\ result = idle
      /\ model = [k \in 1..Len(h) |-> h[k].pkey]
      /\ args = << >>
      /\ popped = << >>
      /\ other = NoClone
      /\ threads = [locked |-> locked,
                    heap |-> h,
                    a |-> locals("__setitem__", Len(h) + 1, pkey),
                    b |-> locals("popitem", 0, 0)]

NextThreads ==
  \E t \in Threads :
    \/ set_find(t)
    \/ set_len(t)
    \/ set_append(t)
    \/ set_index(t)
    \/ swim_entry(t)
    \/ swim_test(t)
    \/ swim_move(t)
    \/ swim_index(t)
    \/ swim_put(t)
    \/ swim_fin(t)
    \/ pop_last(t)
    \/ pop_root(t)
    \/ pop_set(t)
    \/ pop_find(t)
    \/ sink_entry(t)
    \/ sink_test(t)
    \/ sink_move(t)
    \/ sink_index(t)
    \/ sink_put(t)
    \/ sink_fin(t)
    \/ pop_index(t)

SpecThreads == InitThreads /\ [][NextThreads]_vars

\* ------------------------------------------------------------- invariants
\* p outranks q under the entry class of the instance
outranks(p, q) == IF create_entry = "MinPQDEntry" THEN p < q ELSE p > q

Positions == 0..(Len(heap) - 1)

\* I1: no dkey at two positions of the heap
I1 == \A p, q \in Positions : At(heap, p).dkey = At(heap, q).dkey => p = q

\* I2: the index and the heap agree, both ways, and have the same size
I2 ==
  /\ Len(heap) = Cardinality(DOMAIN nodefinder)
  /\ \A k \in DOMAIN nodefinder :
        nodefinder[k] \in Positions /\ At(heap, nodefinder[k]).dkey = k
  /\ \A p \in Positions :
        At(heap, p).dkey \in DOMAIN nodefinder
        /\ nodefinder[At(heap, p).dkey] = p

\* I3: no entry is less than (outranks) its parent
I3 == \A p \in Positions \ {0} : ~ lt(At(heap, p), At(heap, Shr1(p - 1)))

\* ------------------------------------------------------------------ claims
\* C1: heap order is an invariant: after construction and after every
\* __setitem__, additem, updateitem, __delitem__ and popitem call, no entry
\* of the heap is less than (outranks) the entry at its parent position.
C1_HeapOrder == constructed => I3

\* C2: the pair a peek call returns has a priority that the priority of no
\* key present in the queue outranks.
C2_PeekTopRanked ==
  (result.op = "peek" /\ result.status = "ok")
    => \A k \in DOMAIN nodefinder :
          ~ outranks(getitem_of(heap, nodefinder, k), result.val[2])

\* C3: the index is a bijection with the heap: after construction from
\* unique keys and after every call, heap and nodefinder have the same
\* size, each key of nodefinder is the dkey of the entry at its position,
\* each position is the one nodefinder gives for the dkey it holds, and no
\* dkey occurs at two positions.
C3_IndexBijection == constructed => (I1 /\ I2)

\* a full heap, out of heap order after a __setitem__, whose index is exact
C3_Witness ==
  /\ result = Returned("__setitem__", None)
  /\ Len(heap) = NumKeys
  /\ ~ I3
  /\ I1 /\ I2

\* the dkeys of a constructor argument, and the pkey of a dkey's last pair
ArgKeys(seq) == {seq[i][1] : i \in 1..Len(seq)}
LastPkey(seq, k) ==
  LET i == CHOOSE i \in 1..Len(seq) :
             seq[i][1] = k /\ \A j \in (i + 1)..Len(seq) : seq[j][1] # k
  IN seq[i][2]

\* C4: construction from pairs that may repeat a dkey leaves one entry per
\* distinct dkey, in the heap and in the index, and each dkey has the pkey
\* of its last pair.
C4_DuplicatesCollapse ==
  [][(~ constructed /\ constructed')
       => LET n == Cardinality(ArgKeys(args))
          IN /\ Len(heap') = n
             /\ len_of(nodefinder') = n
             /\ \A k \in ArgKeys(args) :
                   getitem_of(heap', nodefinder', k) = LastPkey(args, k)]_vars

\* C5: after inserting pairs with distinct keys (by the constructor, by
\* __setitem__ or by additem), the popitem calls return pairs whose
\* priorities never get better (non-decreasing for a min queue,
\* non-increasing for a max queue), each an inserted pair, none twice, and
\* as many calls as pairs were inserted return them all and leave the
\* queue empty.
C5_SortedExtraction ==
  /\ \A i, j \in 1..Len(popped) :
        i < j => ~ outranks(popped[j][2], popped[i][2])
  /\ \A i, j \in 1..Len(popped) : popped[i][1] = popped[j][1] => i = j
  /\ \A i \in 1..Len(popped) :
        popped[i][1] \in DOMAIN model /\ model[popped[i][1]] = popped[i][2]
  /\ constructed => Len(popped) + Len(heap) = Cardinality(DOMAIN model)
  /\ (constructed /\ Len(popped) = Cardinality(DOMAIN model))
        => (heap = << >> /\ DOMAIN nodefinder = {})

\* a queue of NumKeys pairs of differing priorities, drained
C5_Witness ==
  /\ Len(popped) = NumKeys
  /\ heap = << >>
  /\ popped[1][2] # popped[NumKeys][2]

\* C6: the priority __getitem__ gives for a key is the one of the last
\* successful __setitem__, additem or updateitem of that key: the keys and
\* priorities of the queue are those of a plain dict driven by the same
\* calls.
C6_IndexCorrect ==
  constructed
    => /\ DOMAIN nodefinder = DOMAIN model
       /\ \A k \in DOMAIN model : getitem_of(heap, nodefinder, k) = model[k]

\* an updateitem that returned on a full queue whose last position holds a
\* key of priority MaxPkey
C6_Witness ==
  /\ result = Returned("updateitem", None)
  /\ Len(heap) = NumKeys
  /\ \E k \in DOMAIN model : nodefinder[k] = NumKeys - 1 /\ model[k] = MaxPkey

\* C7: popitem on a non-empty queue returns the pair peek would have
\* returned just before, removes that key and takes one off the size.
C7_PopReturnsTop ==
  [][(heap # << >> /\ popitem)
       => /\ result' = Returned("popitem", peek_of(heap))
          /\ ~ contains(nodefinder', peek_of(heap)[1])
          /\ len_of(nodefinder') = len_of(nodefinder) - 1]_vars

\* a popitem that returned and left several entries
C7_Witness ==
  /\ result.op = "popitem" /\ result.status = "ok"
  /\ Len(heap) >= 2

\* C8: __delitem__ of a present key, wherever it sits in the heap, leaves
\* the key absent and the size one less.
C8_DeletePost ==
  [][\A k \in Keys :
       (k \in DOMAIN nodefinder /\ __delitem__(k))
         => /\ ~ contains(nodefinder', k)
            /\ len_of(nodefinder') = len_of(nodefinder) - 1]_vars

\* a __delitem__ that returned and left NumKeys - 1 entries
C8_Witness ==
  /\ result = Returned("__delitem__", None)
  /\ Len(heap) = NumKeys - 1

\* C9: updateitem, __delitem__ and __getitem__ of an absent key raise
\* KeyError and leave heap and nodefinder as they were.
C9_AbsentKeyFails ==
  [][\A k \in Keys :
       (/\ k \notin DOMAIN nodefinder
        /\ \/ \E p \in Pkeys : updateitem(k, p)
           \/ __delitem__(k)
           \/ __getitem__(k))
         => /\ result'.status = "KeyError"
            /\ heap' = heap
            /\ nodefinder' = nodefinder]_vars

\* an updateitem that raised on a non-empty queue
C9_Witness ==
  /\ result = Raised("updateitem", "KeyError")
  /\ heap # << >>

\* C10: additem of a present key raises KeyError and leaves heap and
\* nodefinder, so the key's priority, as they were; additem of an absent
\* key does what __setitem__ does.
C10_AddItem ==
  [][\A k \in Keys, p \in Pkeys :
       additem(k, p)
         => IF k \in DOMAIN nodefinder
            THEN /\ result' = Raised("additem", "KeyError")
                 /\ heap' = heap
                 /\ nodefinder' = nodefinder
            ELSE LET s == setitem_on(heap, nodefinder, create_entry, k, p)
                 IN /\ result' = Returned("additem", None)
                    /\ heap' = s.heap
                    /\ nodefinder' = s.nodefinder]_vars

\* an additem that raised on a queue of several entries
C10_Witness ==
  /\ result = Raised("additem", "KeyError")
  /\ Len(heap) >= 2

\* C11: popitem and peek on an empty queue raise KeyError and leave heap and
\* nodefinder empty; the queue stays usable: a __setitem__ of any pair then
\* does what it does on a fresh queue, and peek would return that pair.
C11_EmptyFails ==
  [][(heap = << >> /\ (popitem \/ peek))
       => /\ result'.status = "KeyError"
          /\ heap' = << >>
          /\ nodefinder' = EmptyDict
          /\ \A k \in Keys, p \in Pkeys :
                LET s == setitem_on(heap', nodefinder', create_entry', k, p)
                IN /\ s = setitem_on(<< >>, EmptyDict, create_entry, k, p)
                   /\ peek_of(s.heap) = <<k, p>>
                   /\ DOMAIN s.nodefinder = {k}]_vars

\* a popitem that raised on an empty max queue
C11_Witness ==
  /\ result = Raised("popitem", "KeyError")
  /\ heap = << >>
  /\ nodefinder = EmptyDict
  /\ create_entry = "MaxPQDEntry"

\* C12: peek, __getitem__, __contains__ and __len__ are queries: each leaves
\* heap, nodefinder and the entry class as they were, so the size does not
\* change, and what it returns is a function of that unchanged state, so a
\* second call returns the same.
C12_QueriesPure ==
  [][(\/ peek
      \/ __len__
      \/ \E k \in Keys : __getitem__(k) \/ __contains__(k))
       => /\ heap' = heap
          /\ nodefinder' = nodefinder
          /\ create_entry' = create_entry
          /\ len_of(nodefinder') = len_of(nodefinder)
          /\ (result'.op = "peek" /\ result'.status = "ok")
                => result'.val = peek_of(heap')
          /\ result'.op = "__len__" => result'.val = <<len_of(nodefinder')>>
          /\ (result'.op = "__getitem__" /\ result'.status = "ok")
                => \E k \in DOMAIN nodefinder' :
                      result'.val = <<getitem_of(heap', nodefinder', k)>>]_vars

\* a peek that returned on a full queue
C12_Witness ==
  /\ result.op = "peek" /\ result.status = "ok"
  /\ Len(heap) = NumKeys

\* the key -> priority content of the queue
Content(h, f) == [k \in DOMAIN f |-> getitem_of(h, f, k)]

\* C18: a mutation touches only the key it names: from every state reached,
\* __setitem__, additem and updateitem of k change the content at k only,
\* __delitem__ of k and a popitem that returns k remove k only; every
\* other key stays present or absent as it was, with the priority it had,
\* and a call that raises changes no key.
C18_OnlyNamedKey ==
  ready
    => \A c \in Mutations :
          LET q == call_on(self_inst, c)
              before == Content(heap, nodefinder)
              after == Content(q.heap, q.nodefinder)
          IN IF q.result.status # "ok" THEN after = before
             ELSE CASE c.op = "popitem" ->
                         after = Remove(before, q.result.val[1])
                    [] c.op = "__delitem__" -> after = Remove(before, c.dkey)
                    [] OTHER -> after = Put(before, c.dkey, c.pkey)

\* a full queue of differing priorities that earlier calls left out of heap
\* order, ready for the next call
C18_Witness ==
  /\ ready
  /\ Len(heap) = NumKeys
  /\ ~ I3
  /\ \E j, k \in DOMAIN nodefinder :
        getitem_of(heap, nodefinder, j) # getitem_of(heap, nodefinder, k)

\* C14: pop(dkey, default) of a present key removes it, returns the priority
\* it had and takes one off the size, and the entries left keep the index
\* bijection and heap order; of an absent key it returns the default when
\* one is given and raises KeyError when none is, leaving heap and
\* nodefinder as they were.
C14_Pop ==
  [][\A k \in HeapKeys, d \in Defaults :
       pop(k, d)
         => IF k \in DOMAIN nodefinder
            THEN /\ result'
                      = Returned("pop", <<getitem_of(heap, nodefinder, k)>>)
                 /\ ~ contains(nodefinder', k)
                 /\ len_of(nodefinder') = len_of(nodefinder) - 1
                 /\ Content(heap', nodefinder')
                      = Remove(Content(heap, nodefinder), k)
                 /\ I1' /\ I2' /\ I3'
            ELSE /\ result' = IF d = NoDefault THEN Raised("pop", "KeyError")
                                              ELSE Returned("pop", d)
                 /\ heap' = heap
                 /\ nodefinder' = nodefinder]_vars

\* a pop that returned the priority of a key that was neither at the root
\* nor at the end of a list of MaxHeap entries of differing priorities
C14_Witness ==
  /\ result.op = "pop" /\ result.status = "ok"
  /\ Len(heap) = MaxHeap - 1
  /\ DOMAIN nodefinder = HeapKeys \ {2}
  /\ result.val # <<At(heap, 0).pkey>>

\* C16: __delitem__ alone preserves heap order: from every state that
\* satisfies I1, I2 and I3, deleting any present key, at whatever position
\* it sits, gives a state that satisfies I1, I2 and I3.
C16_DeleteKeepsOrder ==
  [][\A k \in HeapKeys :
       (I1 /\ I2 /\ I3 /\ contains(nodefinder, k) /\ __delitem__(k))
         => (I1' /\ I2' /\ I3')]_vars

\* the delete that has to swim: key 4 at position 3 deleted from a list of
\* MaxHeap entries, the last entry moved into position 3 and from there up
\* over its parent, key 2
C16_Witness ==
  /\ result = Returned("__delitem__", None)
  /\ Len(heap) = MaxHeap - 1
  /\ DOMAIN nodefinder = HeapKeys \ {4}
  /\ nodefinder[MaxHeap] = 1
  /\ nodefinder[2] = 3

\* C17: construction heapifies any list of pairs of distinct keys: the heap
\* is a permutation of the pairs given, it is heap ordered, and nodefinder
\* maps each key to the position its entry ended at.
C17_Heapify ==
  result.op = "__init__"
    => /\ Len(heap) = Cardinality(DOMAIN model)
       /\ DOMAIN nodefinder = DOMAIN model
       /\ \A k \in DOMAIN model : getitem_of(heap, nodefinder, k) = model[k]
       /\ I1 /\ I2 /\ I3

\* MaxHeap pairs heapified, the last pair given ended at the root
C17_Witness ==
  /\ result.op = "__init__"
  /\ Len(heap) = MaxHeap
  /\ At(heap, 0).dkey = MaxHeap

\* the pairs the popitem calls return until the queue is empty; a popitem
\* that raises ends the sequence with << >>
RECURSIVE drain_of(_, _)
drain_of(h, f) ==
  IF h = << >> THEN << >>
  ELSE LET s == popitem_on(h, f)
       IN IF s.found
          THEN <<<<s.entry.dkey, s.entry.pkey>>>>
                 \o drain_of(s.heap, s.nodefinder)
          ELSE <<<< >>>>

C15_CloneKeepsOrdering ==
  (other # NoClone /\ result.op \in {"popitem", "peek"})
    => other.result = result

\* what the two calls of the threads leave when one runs after the other:
\* __setitem__ then popitem, and popitem then __setitem__
SerialOutcomes ==
  LET h == threads.heap
      f == [k \in 1..Len(h) |-> k - 1]
      none == [heap |-> h, nodefinder |-> f]
      after_set(s) == setitem_on(s.heap, s.nodefinder, create_entry,
                                 threads.a.dkey, threads.a.pkey)
      after_pop(s) == IF s.heap = << >> THEN s
                      ELSE LET r == popitem_on(s.heap, s.nodefinder)
                           IN [heap |-> r.heap, nodefinder |-> r.nodefinder]
  IN {after_pop(after_set(none)), after_set(after_pop(none))}

\* C19: the calls are not safe to interleave: two mutating calls whose
\* reads and writes of heap and nodefinder interleave can both return and
\* leave I2 or I3 violated; when each call runs as a whole, under a lock,
\* running them from two threads breaks nothing: between calls and after
\* both I1, I2 and I3 hold, and the queue is what the two calls leave when
\* made one after the other.
C19_AtomicCallsSafe ==
  (threads # NoThreads /\ threads.locked)
    => /\ (\A t \in Threads : ~ running(t)) => (I1 /\ I2 /\ I3)
       /\ (\A t \in Threads : finished(t))
            => [heap |-> heap, nodefinder |-> nodefinder] \in SerialOutcomes

\* without the lock: both calls have returned, neither raised, and the
\* index or the heap order is broken
C19_Witness ==
  /\ threads # NoThreads
  /\ ~ threads.locked
  /\ \A t \in Threads : threads[t].pc = "done"
  /\ ~ (I2 /\ I3)

====
